---- MODULE Spec2Model ----
(***************************************************************************)
(* Model of pkg/zipper: Zip and addFileToZip (zipper.go).                  *)
(*                                                                         *)
(* A path string is a sequence of tokens: a token is a file name or one    *)
(* of the two separator characters "/" and "\\".  The host's separator     *)
(* (os.PathSeparator) is the variable sep, so that the path/filepath       *)
(* functions the code calls (Abs, Clean, Dir, Base, Rel, ToSlash, Join)    *)
(* are computed as the library computes them on either kind of host.       *)
(***************************************************************************)
EXTENDS Integers, Sequences, FiniteSets, TLC

\* Longest InputPaths list a job is started with.
MaxInputs == 2

\* Most failures the environment raises during one job, the stat of a path
\* that does not exist aside.
MaxFaults == 2

VARIABLES
    sep,          \* os.PathSeparator of the host: "/" or "\\"
    InputPaths,   \* opt.InputPaths
    pc,           \* position in Zip
    idx,          \* index of the next element of the range over InputPaths
    walkQ,        \* what filepath.Walk still has to visit, in its order
    baseDir,      \* baseDir of the walk in progress
    processed,    \* the map processed, as the set of its keys
    archive,      \* entries zipWriter holds, in the order they were created
    ret,          \* Zip's return value once a return statement has run
    deferStack,   \* deferred calls of Zip, in the order they were deferred
    closeLog,     \* calls made of zipWriter.Close / zipFile.Close, in order
    finalized,    \* zipWriter.Close wrote the central directory
    stdout,       \* what fmt.Printf has printed, one record per call
    faults,       \* failures the environment has raised so far
    seen          \* files for which an archive key has been computed

vars == << sep, InputPaths, pc, idx, walkQ, baseDir, processed, archive, ret,
           deferStack, closeLog, finalized, stdout, faults, seen >>

----------------------------------------------------------------------------
(* path/filepath *)

\* os.IsPathSeparator: Windows accepts both characters.
IsPathSeparator(c) == c = sep \/ (sep = "\\" /\ c = "/")

\* filepath.IsAbs (volume names are not modelled: rooted means absolute).
IsAbs(p) == Len(p) > 0 /\ IsPathSeparator(p[1])

\* The path elements of p: the tokens between separators, empty ones dropped.
Split(p) == SelectSeq(p, LAMBDA c : ~IsPathSeparator(c))

\* elements joined by the host separator, with no leading separator
RECURSIVE JoinElems(_)
JoinElems(elems) ==
    IF Len(elems) = 0 THEN << >>
    ELSE IF Len(elems) = 1 THEN << elems[1] >>
    ELSE << elems[1], sep >> \o JoinElems(Tail(elems))

\* The lexical processing of filepath.Clean on the elements: "." dropped,
\* ".." removes the element before it, is dropped at the root, and is kept
\* at the start of a relative path.
RECURSIVE CleanElems(_, _, _)
CleanElems(rooted, out, rest) ==
    IF Len(rest) = 0 THEN out
    ELSE LET e == Head(rest) IN
         IF e = "." THEN CleanElems(rooted, out, Tail(rest))
         ELSE IF e = ".." THEN
              IF Len(out) > 0 /\ out[Len(out)] # ".."
              THEN CleanElems(rooted, SubSeq(out, 1, Len(out) - 1), Tail(rest))
              ELSE IF rooted THEN CleanElems(rooted, out, Tail(rest))
              ELSE CleanElems(rooted, Append(out, ".."), Tail(rest))
         ELSE CleanElems(rooted, Append(out, e), Tail(rest))

\* filepath.Clean
Clean(p) ==
    LET elems == CleanElems(IsAbs(p), << >>, Split(p)) IN
    IF IsAbs(p) THEN << sep >> \o JoinElems(elems)
    ELSE IF Len(elems) = 0 THEN << "." >>
    ELSE JoinElems(elems)

\* filepath.Join of two paths
Join(a, b) ==
    IF Len(a) = 0 THEN Clean(b)
    ELSE IF Len(b) = 0 THEN Clean(a)
    ELSE Clean(a \o << sep >> \o b)

\* the working directory os.Getwd reports
Getwd == << sep, "w" >>

\* filepath.Abs when os.Getwd succeeds
Abs(p) == IF IsAbs(p) THEN Clean(p) ELSE Join(Getwd, p)

\* index of the last separator of p, 0 if there is none
RECURSIVE LastSep(_, _)
LastSep(p, i) ==
    IF i = 0 THEN 0
    ELSE IF IsPathSeparator(p[i]) THEN i
    ELSE LastSep(p, i - 1)

\* p without its trailing separators
RECURSIVE StripTrailing(_)
StripTrailing(p) ==
    IF Len(p) > 0 /\ IsPathSeparator(p[Len(p)])
    THEN StripTrailing(SubSeq(p, 1, Len(p) - 1))
    ELSE p

\* filepath.Base
Base(p) ==
    IF Len(p) = 0 THEN << "." >>
    ELSE LET q == StripTrailing(p) IN
         IF Len(q) = 0 THEN << sep >>
         ELSE SubSeq(q, LastSep(q, Len(q)) + 1, Len(q))

\* filepath.Dir
Dir(p) == Clean(SubSeq(p, 1, LastSep(p, Len(p))))

\* length of the common prefix of two element lists
RECURSIVE Common(_, _)
Common(a, b) ==
    IF Len(a) = 0 \/ Len(b) = 0 \/ Head(a) # Head(b) THEN 0
    ELSE 1 + Common(Tail(a), Tail(b))

\* filepath.Rel reports an error when only one of the two paths is rooted
RelFails(basepath, targpath) == IsAbs(basepath) # IsAbs(targpath)

\* filepath.Rel when it succeeds
Rel(basepath, targpath) ==
    LET b == Split(Clean(basepath))
        t == Split(Clean(targpath))
        k == Common(b, t)
        up == [i \in 1..(Len(b) - k) |-> ".."]
        elems == up \o SubSeq(t, k + 1, Len(t))
    IN IF Len(elems) = 0 THEN << "." >> ELSE JoinElems(elems)

\* a bug of ToSlash: the path is left as the host spells it
ToSlashIdentity(p) == p

\* filepath.ToSlash
ToSlash(p) ==
    IF sep = "/" THEN p
    ELSE [i \in 1..Len(p) |-> IF p[i] = sep THEN "/" ELSE p[i]]

----------------------------------------------------------------------------
(* the file system the job runs on *)

\* The tree, by the elements of each absolute path.  Directories hold "".
Tree ==
    ( << >>                          :> [kind |-> "dir",  data |-> ""] ) @@
    ( << "v" >>                      :> [kind |-> "dir",  data |-> ""] ) @@
    ( << "v", "a.txt" >>             :> [kind |-> "file", data |-> "alt"] ) @@
    ( << "v", "proj" >>              :> [kind |-> "dir",  data |-> ""] ) @@
    ( << "v", "proj", "a.txt" >>     :> [kind |-> "file", data |-> "other"] ) @@
    ( << "w" >>                      :> [kind |-> "dir",  data |-> ""] ) @@
    ( << "w", "a.txt" >>             :> [kind |-> "file", data |-> "top"] ) @@
    ( << "w", "proj" >>              :> [kind |-> "dir",  data |-> ""] ) @@
    ( << "w", "proj", "a.txt" >>     :> [kind |-> "file", data |-> "hello"] ) @@
    ( << "w", "proj", "sub" >>       :> [kind |-> "dir",  data |-> ""] ) @@
    ( << "w", "proj", "sub", "b.txt" >> :> [kind |-> "file", data |-> "world"] )

\* the names of the tree in lexical order, the order of readDirNames
SortedNames == << "a.txt", "b.txt", "proj", "sub", "v", "w" >>

\* os.Stat succeeds
StatOk(p) == Split(p) \in DOMAIN Tree

\* info.IsDir()
IsDir(p) == Tree[Split(p)].kind = "dir"

\* the bytes io.Copy reads from the file
Contents(p) == Tree[Split(p)].data

\* readDirNames: the names in a directory, sorted
ReadDirNames(p) ==
    SelectSeq(SortedNames, LAMBDA n : Append(Split(p), n) \in DOMAIN Tree)

\* The paths filepath.Walk hands to its callback, in order: the root, then
\* for a directory each of its names in lexical order, depth first.
RECURSIVE WalkList(_)
RECURSIVE WalkNames(_, _)
WalkList(p) ==
    IF IsDir(p) THEN << p >> \o WalkNames(p, ReadDirNames(p)) ELSE << p >>

WalkNames(p, names) ==
    IF Len(names) = 0 THEN << >>
    ELSE WalkList(Join(p, << Head(names) >>)) \o WalkNames(p, Tail(names))

\* The input paths a caller passes, as the host spells them.
Inputs ==
    { << "proj", sep >>,
      << sep, "v", sep, "proj" >>,
      << "a.txt" >>,
      << "..", sep, "v", sep, "a.txt" >>,
      << "missing" >> }

RECURSIVE SeqsUpTo(_, _)
SeqsUpTo(S, n) ==
    IF n = 0 THEN { << >> }
    ELSE LET shorter == SeqsUpTo(S, n - 1) IN
         shorter \cup { Append(q, x) : q \in shorter, x \in S }

----------------------------------------------------------------------------
(* addFileToZip *)

\* What the environment does to one call of addFileToZip.  zip.FileInfoHeader
\* (line 169) has no failing path in archive/zip, so it has no outcome here.
AddOutcomes ==
    { "ok",            \* every call succeeds
      "notexist",      \* os.Stat: the file is gone (line 140)
      "notfile",       \* os.Stat fails otherwise, or finds a directory (line 145)
      "open",          \* os.Open fails (line 149)
      "fstat",         \* file.Stat fails (line 162)
      "createheader",  \* zipWriter.CreateHeader fails (line 182)
      "copy" }         \* io.Copy fails (line 188)

\* a bug of addFileToZip: a file that is gone fails the job
AddErrMissingFatal(o) ==
    CASE o = "ok" -> "nil"
      [] o = "notexist" -> "notexist"
      [] o = "notfile" -> "nil"
      [] OTHER -> o

\* The error addFileToZip returns: nil when it added the file and when it
\* skipped it with a warning, the failing call's error otherwise.
AddErr(o) ==
    CASE o = "ok" -> "nil"
      [] o = "notexist" -> "nil"
      [] o = "notfile" -> "nil"
      [] o = "open" -> "open"
      [] o = "fstat" -> "fstat"
      [] o = "createheader" -> "createheader"
      [] o = "copy" -> "copy"

\* What addFileToZip prints.
AddPrints(o, filePath, zipPath) ==
    CASE o = "ok" -> << [msg |-> "Added", arg |-> zipPath] >>
      [] o = "notexist" -> << [msg |-> "Warning: File does not exist", arg |-> filePath] >>
      [] o = "notfile" -> << [msg |-> "Warning: is not a file", arg |-> filePath] >>
      [] o = "open" -> << [msg |-> "Error opening file", arg |-> filePath] >>
      [] o = "fstat" -> << [msg |-> "Error getting file info", arg |-> filePath] >>
      [] OTHER -> << >>

\* The entries of the writer after the call: CreateHeader starts the entry
\* named zipPath and io.Copy fills it; a failed copy leaves it incomplete.
AddEntries(o, filePath, zipPath) ==
    IF o \in { "ok", "copy" }
    THEN Append(archive, [name |-> zipPath, src |-> filePath, input |-> idx,
                          data |-> IF o = "ok" THEN Contents(filePath) ELSE "",
                          complete |-> (o = "ok")])
    ELSE archive

\* addFileToZip(zipWriter, filePath, zipPath) under outcome o
addFileToZip(o, filePath, zipPath) ==
    [ err     |-> AddErr(o),
      archive |-> AddEntries(o, filePath, zipPath),
      stdout  |-> stdout \o AddPrints(o, filePath, zipPath) ]

----------------------------------------------------------------------------
(* Zip *)

Fault(kind, path) == [kind |-> kind, input |-> idx, path |-> path]

\* the environment may raise one more failure
CanFail == Len(faults) < MaxFaults

Saw(key, path, dup) ==
    [key |-> key, path |-> path, input |-> idx, data |-> Contents(path), dup |-> dup]

\* a bug of the duplicate check: nothing counts as processed
NeverProcessed(set, key) == FALSE

\* processed[relPathFwd]
IsProcessed(set, key) == key \in set

\* a bug of the single-file key: the path relative to the working directory
FileKeyRelative(absSource) == ToSlash(Rel(Getwd, absSource))

\* the archive key of a file given directly
FileKey(absSource) == ToSlash(Base(absSource))

\* the archive key of a file found by the walk
WalkKey(base, path) == ToSlash(Rel(base, path))

\* a bug of the input loop: a failed input ends the job with its error
OnInputErrorReturn(e) == [ret |-> e, pc |-> "defers", step |-> 0]

\* After the warning for an input that cannot be resolved or stat'ed:
\* continue with the next input.
OnInputError(e) == [ret |-> "none", pc |-> "range", step |-> 1]

\* a bug of the walk callback: the error is printed and not returned
WalkFnErrSwallowed(e) == "nil"

\* what the walk callback returns when it is handed an error
WalkFnErr(e) == e

\* a bug of the deferred calls: run in the order they were deferred
FirstDeferred(stack) == 1

\* Deferred calls run last in, first out: the index of the next one.
NextDeferred(stack) == Len(stack)

Init ==
    /\ sep \in { "/", "\\" }
    /\ InputPaths \in SeqsUpTo(Inputs, MaxInputs)
    /\ pc = "create"
    /\ idx = 1
    /\ walkQ = << >>
    /\ baseDir = << >>
    /\ processed = { }
    /\ archive = << >>
    /\ ret = "none"
    /\ deferStack = << >>
    /\ closeLog = << >>
    /\ finalized = FALSE
    /\ stdout = << >>
    /\ faults = << >>
    /\ seen = << >>

\* os.Create succeeds; both closes are deferred and processed is made
Create ==
    /\ pc = "create"
    /\ pc' = "range"
    /\ deferStack' = << "zipFile.Close", "zipWriter.Close" >>
    /\ UNCHANGED << sep, InputPaths, idx, walkQ, baseDir, processed, archive, ret,
                    closeLog, finalized, stdout, faults, seen >>

\* os.Create fails: Zip returns the error, nothing is deferred
CreateFails ==
    /\ pc = "create"
    /\ CanFail
    /\ pc' = "done"
    /\ ret' = "create"
    /\ faults' = Append(faults, Fault("create", << >>))
    /\ UNCHANGED << sep, InputPaths, idx, walkQ, baseDir, processed, archive,
                    deferStack, closeLog, finalized, stdout, seen >>

\* the range over InputPaths is exhausted: return nil
RangeEnd ==
    /\ pc = "range"
    /\ idx > Len(InputPaths)
    /\ ret' = "nil"
    /\ pc' = "defers"
    /\ UNCHANGED << sep, InputPaths, idx, walkQ, baseDir, processed, archive,
                    deferStack, closeLog, finalized, stdout, faults, seen >>

\* filepath.Abs fails (os.Getwd fails for a relative path): warn, continue
AbsFails ==
    /\ pc = "range"
    /\ idx <= Len(InputPaths)
    /\ ~IsAbs(InputPaths[idx])
    /\ CanFail
    /\ LET next == OnInputError("getwd") IN
        /\ ret' = next.ret
        /\ pc' = next.pc
        /\ idx' = idx + next.step
    /\ stdout' = Append(stdout, [msg |-> "Warning: Could not get absolute path",
                                 arg |-> InputPaths[idx]])
    /\ faults' = Append(faults, Fault("getwd", InputPaths[idx]))
    /\ UNCHANGED << sep, InputPaths, walkQ, baseDir, processed, archive,
                    deferStack, closeLog, finalized, seen >>

\* os.Stat fails: warn, continue
StatFails ==
    /\ pc = "range"
    /\ idx <= Len(InputPaths)
    /\ ~StatOk(Abs(InputPaths[idx]))
    /\ LET next == OnInputError("stat") IN
        /\ ret' = next.ret
        /\ pc' = next.pc
        /\ idx' = idx + next.step
    /\ stdout' = Append(stdout, [msg |-> "Warning: Could not stat",
                                 arg |-> InputPaths[idx]])
    /\ faults' = Append(faults, Fault("stat", InputPaths[idx]))
    /\ UNCHANGED << sep, InputPaths, walkQ, baseDir, processed, archive,
                    deferStack, closeLog, finalized, seen >>

\* the input is a directory: filepath.Walk starts
WalkStart ==
    /\ pc = "range"
    /\ idx <= Len(InputPaths)
    /\ LET absSource == Abs(InputPaths[idx]) IN
        /\ StatOk(absSource)
        /\ IsDir(absSource)
        /\ baseDir' = Dir(absSource)
        /\ walkQ' = WalkList(absSource)
    /\ pc' = "walk"
    /\ UNCHANGED << sep, InputPaths, idx, processed, archive, ret,
                    deferStack, closeLog, finalized, stdout, faults, seen >>

\* the input is a single file
SingleFile ==
    /\ pc = "range"
    /\ idx <= Len(InputPaths)
    /\ LET absSource == Abs(InputPaths[idx]) IN
        /\ StatOk(absSource)
        /\ ~IsDir(absSource)
        /\ LET relPathFwd == FileKey(absSource) IN
            IF IsProcessed(processed, relPathFwd)
            THEN /\ idx' = idx + 1
                 /\ seen' = Append(seen, Saw(relPathFwd, absSource, TRUE))
                 /\ UNCHANGED << pc, processed, archive, ret, stdout, faults >>
            ELSE \E o \in AddOutcomes :
                 LET r == addFileToZip(o, absSource, relPathFwd) IN
                 /\ o = "ok" \/ CanFail
                 /\ seen' = Append(seen, Saw(relPathFwd, absSource, FALSE))
                 /\ archive' = r.archive
                 /\ stdout' = r.stdout
                 /\ faults' = IF o = "ok" THEN faults
                              ELSE Append(faults, Fault(o, absSource))
                 /\ IF r.err # "nil"
                    THEN /\ ret' = r.err
                         /\ pc' = "defers"
                         /\ UNCHANGED << idx, processed >>
                    ELSE /\ processed' = processed \cup { relPathFwd }
                         /\ idx' = idx + 1
                         /\ UNCHANGED << pc, ret >>
    /\ UNCHANGED << sep, InputPaths, walkQ, baseDir, deferStack, closeLog, finalized >>

\* the walk hands its callback an error (Lstat or the directory read failed)
WalkError ==
    /\ pc = "walk"
    /\ Len(walkQ) > 0
    /\ CanFail
    /\ stdout' = Append(stdout, [msg |-> "Warning: Error accessing", arg |-> Head(walkQ)])
    /\ faults' = Append(faults, Fault("walk", Head(walkQ)))
    /\ IF WalkFnErr("walk") # "nil"
       THEN /\ ret' = WalkFnErr("walk")
            /\ pc' = "defers"
            /\ UNCHANGED walkQ
       ELSE /\ walkQ' = Tail(walkQ)
            /\ UNCHANGED << ret, pc >>
    /\ UNCHANGED << sep, InputPaths, idx, baseDir, processed, archive,
                    deferStack, closeLog, finalized, seen >>

\* the callback is handed a directory: it is skipped as an entry
WalkDir ==
    /\ pc = "walk"
    /\ Len(walkQ) > 0
    /\ IsDir(Head(walkQ))
    /\ stdout' = Append(stdout, [msg |-> "Skipping directory", arg |-> Head(walkQ)])
    /\ walkQ' = Tail(walkQ)
    /\ UNCHANGED << sep, InputPaths, pc, idx, baseDir, processed, archive, ret,
                    deferStack, closeLog, finalized, faults, seen >>

\* The callback is handed a file.  baseDir and path are both absolute, so
\* filepath.Rel does not fail and the return of line 100 is never taken.
WalkFile ==
    /\ pc = "walk"
    /\ Len(walkQ) > 0
    /\ LET path == Head(walkQ) IN
        /\ ~IsDir(path)
        /\ IF RelFails(baseDir, path)
           THEN /\ ret' = "rel"
                /\ pc' = "defers"
                /\ UNCHANGED << walkQ, processed, archive, stdout, faults, seen >>
           ELSE LET relPathFwd == WalkKey(baseDir, path) IN
                IF IsProcessed(processed, relPathFwd)
                THEN /\ walkQ' = Tail(walkQ)
                     /\ seen' = Append(seen, Saw(relPathFwd, path, TRUE))
                     /\ UNCHANGED << pc, processed, archive, ret, stdout, faults >>
                ELSE \E o \in AddOutcomes :
                     LET r == addFileToZip(o, path, relPathFwd) IN
                     /\ o = "ok" \/ CanFail
                     /\ seen' = Append(seen, Saw(relPathFwd, path, FALSE))
                     /\ processed' = processed \cup { relPathFwd }
                     /\ archive' = r.archive
                     /\ stdout' = r.stdout
                     /\ faults' = IF o = "ok" THEN faults
                                  ELSE Append(faults, Fault(o, path))
                     /\ IF r.err # "nil"
                        THEN /\ ret' = r.err
                             /\ pc' = "defers"
                             /\ UNCHANGED walkQ
                        ELSE /\ walkQ' = Tail(walkQ)
                             /\ UNCHANGED << pc, ret >>
    /\ UNCHANGED << sep, InputPaths, idx, baseDir, deferStack, closeLog, finalized >>

\* filepath.Walk returns nil: on to the next input
WalkEnd ==
    /\ pc = "walk"
    /\ Len(walkQ) = 0
    /\ idx' = idx + 1
    /\ pc' = "range"
    /\ UNCHANGED << sep, InputPaths, walkQ, baseDir, processed, archive, ret,
                    deferStack, closeLog, finalized, stdout, faults, seen >>

\* One deferred call runs after the return statement.  Its error is printed;
\* Zip's result is not a named result, so the call cannot change it.
RunDeferred ==
    /\ pc = "defers"
    /\ Len(deferStack) > 0
    /\ LET k == NextDeferred(deferStack)
           call == deferStack[k]
       IN \E ok \in BOOLEAN :
           /\ ok \/ CanFail
           /\ deferStack' = SubSeq(deferStack, 1, k - 1) \o
                            SubSeq(deferStack, k + 1, Len(deferStack))
           /\ closeLog' = Append(closeLog, call)
           /\ finalized' = IF call = "zipWriter.Close" THEN ok ELSE finalized
           /\ stdout' = IF ok THEN stdout
                        ELSE Append(stdout,
                               [msg |-> IF call = "zipWriter.Close"
                                        THEN "Error closing zip archive"
                                        ELSE "Error creating zip archive",
                                arg |-> << >>])
           /\ faults' = IF ok THEN faults ELSE Append(faults, Fault(call, << >>))
           /\ pc' = IF Len(deferStack) = 1 THEN "done" ELSE "defers"
    /\ UNCHANGED << sep, InputPaths, idx, walkQ, baseDir, processed, archive, ret, seen >>

Next ==
    \/ Create
    \/ CreateFails
    \/ RangeEnd
    \/ AbsFails
    \/ StatFails
    \/ WalkStart
    \/ SingleFile
    \/ WalkError
    \/ WalkDir
    \/ WalkFile
    \/ WalkEnd
    \/ RunDeferred

Spec == Init /\ [][Next]_vars

----------------------------------------------------------------------------
(* what the claims speak of *)

EntryNames == { archive[i].name : i \in DOMAIN archive }

FaultKinds == { faults[i].kind : i \in DOMAIN faults }

Failed == ret \notin { "none", "nil" }

BothClosed == << "zipWriter.Close", "zipFile.Close" >>

\* the node of the tree input i denotes
InputNode(i) == Split(Abs(InputPaths[i]))

\* the last element of the path of input i
BaseName(i) == InputNode(i)[Len(InputNode(i))]

\* inputs whose resolution or top-level stat failed
SkippedInputs ==
    { faults[k].input : k \in { j \in DOMAIN faults : faults[j].kind \in { "getwd", "stat" } } }

DirInputs ==
    { i \in DOMAIN InputPaths \ SkippedInputs :
        InputNode(i) \in DOMAIN Tree /\ Tree[InputNode(i)].kind = "dir" }

FileInputs ==
    { i \in DOMAIN InputPaths \ SkippedInputs :
        InputNode(i) \in DOMAIN Tree /\ Tree[InputNode(i)].kind = "file" }

\* the regular files at or below node e
FilesUnder(e) ==
    { f \in DOMAIN Tree :
        /\ Tree[f].kind = "file"
        /\ Len(f) >= Len(e)
        /\ SubSeq(f, 1, Len(e)) = e }

RECURSIVE SlashJoin(_)
SlashJoin(elems) ==
    IF Len(elems) = 0 THEN << >>
    ELSE IF Len(elems) = 1 THEN << elems[1] >>
    ELSE << elems[1], "/" >> \o SlashJoin(Tail(elems))

\* The key the specification gives file f reached through input node e:
\* from the directory's own name on for a directory, the base name for a file.
ExpectedKey(e, f) ==
    IF Tree[e].kind = "dir"
    THEN SlashJoin(SubSeq(f, Len(e), Len(f)))
    ELSE << f[Len(f)] >>

\* the keys of the files addFileToZip has skipped with a warning
SkippedKeys ==
    { seen[k].key :
        k \in { n \in DOMAIN seen :
                  \E j \in DOMAIN faults :
                    /\ faults[j].kind \in { "notexist", "notfile" }
                    /\ faults[j].input = seen[n].input
                    /\ faults[j].path = seen[n].path } }

----------------------------------------------------------------------------
(* C1 *)

\* C1: the archive never holds two entries with the same key, and a file
\* whose key was already in processed when it was met gets no entry and
\* raises no failure.
C1_OneEntryPerKey ==
    /\ \A i, j \in DOMAIN archive : archive[i].name = archive[j].name => i = j
    /\ \A k \in DOMAIN seen :
         seen[k].dup =>
           /\ ~ \E i \in DOMAIN archive :
                  archive[i].input = seen[k].input /\ archive[i].src = seen[k].path
           /\ ~ \E j \in DOMAIN faults :
                  faults[j].input = seen[k].input /\ faults[j].path = seen[k].path

C1_Witness ==
    /\ pc = "done"
    /\ ret = "nil"
    /\ Len(archive) > 0
    /\ \E k \in DOMAIN seen : seen[k].dup

(* C2 *)

\* C2: when Zip returns nil, a key that two or more files resolved to has
\* exactly one entry, holding the data of the first of those files.
C2_FirstWins ==
    (pc = "done" /\ ret = "nil") =>
      \A k1, k2 \in DOMAIN seen :
        ( /\ k1 < k2
          /\ seen[k1].key = seen[k2].key
          /\ \A k0 \in 1..(k1 - 1) : seen[k0].key # seen[k1].key )
        => /\ Cardinality({ i \in DOMAIN archive : archive[i].name = seen[k1].key }) = 1
           /\ \A i \in DOMAIN archive :
                archive[i].name = seen[k1].key => archive[i].data = seen[k1].data

(* C3 *)

\* C3: once the output file exists, the writer and then the file are each
\* closed once, in that order, on every way out of Zip, and no entry is
\* written once a close has run.
C3_ClosedOnceInOrder ==
    /\ [](closeLog = SubSeq(BothClosed, 1, Len(closeLog)))
    /\ []((pc = "done" /\ "create" \notin FaultKinds) => closeLog = BothClosed)
    /\ [][Len(closeLog) > 0 => archive' = archive]_vars

C3_Witness ==
    /\ pc = "done"
    /\ Failed
    /\ Len(archive) > 0
    /\ closeLog = BothClosed

(* C4 *)

\* C4: if no fatal error ended the traversal and closing the archive writer
\* failed, Zip returns a non-nil error.
C4_FinalizeFailureReturned ==
    ( /\ pc = "done"
      /\ "zipWriter.Close" \in FaultKinds
      /\ FaultKinds \subseteq { "zipWriter.Close", "zipFile.Close",
                                "getwd", "stat", "notexist", "notfile" } )
    => ret # "nil"

(* C5 *)

\* C5: resolution and stat failures never make Zip fail; when they are the
\* only failures of a run, Zip returns nil and the finalized archive holds
\* one complete entry per key of the files of the inputs that did not fail
\* (none when every input failed), and nothing of the inputs that failed.
C5_FailedInputsSkipped ==
    /\ Failed => ~ (FaultKinds \subseteq { "getwd", "stat" })
    /\ \A i \in DOMAIN archive : archive[i].input \notin SkippedInputs
    /\ (pc = "done" /\ FaultKinds \subseteq { "getwd", "stat" }) =>
         /\ ret = "nil"
         /\ finalized
         /\ closeLog = BothClosed
         /\ \A i \in DOMAIN archive : archive[i].complete
         /\ EntryNames =
              UNION { { ExpectedKey(InputNode(i), f) : f \in FilesUnder(InputNode(i)) } :
                      i \in DOMAIN InputPaths \ SkippedInputs }

C5_Witness ==
    /\ pc = "done"
    /\ FaultKinds \subseteq { "getwd", "stat" }
    /\ Len(faults) > 0
    /\ faults[1].input = 1
    /\ Len(archive) > 0
    /\ archive[1].input = 2

(* C6 *)

FatalKinds == { "walk", "open", "fstat", "createheader", "copy" }

\* C7: the first fatal failure of the traversal is the only one and is what
\* Zip returns; from then on no input, no descendant and no entry follows.
C7_FailFast ==
    /\ [](LET F == { k \in DOMAIN faults : faults[k].kind \in FatalKinds } IN
          F # { } =>
            /\ Cardinality(F) = 1
            /\ \A k \in F : ret = faults[k].kind
            /\ pc \in { "defers", "done" })
    /\ [][Failed => UNCHANGED << archive, seen, processed, idx, walkQ, ret >>]_vars

C7_Witness ==
    /\ pc = "done"
    /\ ret = "walk"
    /\ idx < Len(InputPaths)
    /\ Len(walkQ) > 1
    /\ Len(archive) > 0

(* C8 *)

\* no entry stands for a directory, and every key is spelled with "/"
FilesOnlySlashKeys ==
    /\ \A n \in DOMAIN archive :
         /\ Tree[Split(archive[n].src)].kind = "file"
         /\ \A c \in DOMAIN archive[n].name : archive[n].name[c] # "\\"
    /\ \A i \in DirInputs :
         \A n \in DOMAIN archive :
           archive[n].input = i =>
             /\ Len(archive[n].name) >= 3
             /\ archive[n].name[1] = BaseName(i)
             /\ archive[n].name[2] = "/"

\* the example of the specification: proj/ with a.txt and sub/b.txt
ProjExample ==
    (pc = "done" /\ InputPaths = << << "proj", sep >> >> /\ faults = << >>) =>
      [i \in DOMAIN archive |-> << archive[i].name, archive[i].data >>] =
        << << << "proj", "/", "a.txt" >>, "hello" >>,
           << << "proj", "/", "sub", "/", "b.txt" >>, "world" >> >>

C9_BareFileBaseName ==
    \A i \in FileInputs :
      /\ \A k \in DOMAIN seen :
           seen[k].input = i => seen[k].key = << BaseName(i) >>
      /\ \A n \in DOMAIN archive :
           archive[n].input = i => archive[n].name = << BaseName(i) >>
      /\ \A j \in FileInputs :
           (j < i /\ BaseName(j) = BaseName(i)) =>
             ~ \E n \in DOMAIN archive : archive[n].input = i

C9_Witness ==
    /\ pc = "done"
    /\ InputPaths = << << "a.txt" >>, << "..", sep, "v", sep, "a.txt" >> >>
    /\ Len(seen) = 2
    /\ seen[2].dup
    /\ [i \in DOMAIN archive |-> archive[i].data] = << "top" >>

(* C10 *)

\* C10: every key in processed has an entry in the archive.
C10_ProcessedWereWritten == processed \subseteq EntryNames

====
